---- MODULE Spec2Model ----
(***************************************************************************)
(* Model of the ledger service of src/main.rs: the axum handler            *)
(* insert_transaction (POST /clientes/:id/transacoes) running as           *)
(* concurrent tasks against one PostgreSQL database through a shared sqlx  *)
(* pool.  Every await of the handler is one step of a request; the         *)
(* database is modelled by its committed tables (wallets, log), by the     *)
(* uncommitted writes each open transaction holds (txRecord, txBalance)    *)
(* and by the row lock an UPDATE takes until commit or rollback.           *)
(***************************************************************************)
EXTENDS Integers, Sequences, FiniteSets, TLC

\* ------------------------------------------------------------------ bounds
NReq == 2          \* concurrent requests
MaxClock == 1      \* the database clock runs 0..MaxClock

\* ------------------------------------------------------- program constants
MaxConnections == 5                 \* PgPoolOptions::max_connections(5)
INTERNAL_SERVER_ERROR == 500        \* StatusCode::INTERNAL_SERVER_ERROR
UNPROCESSABLE_ENTITY == 422         \* axum's JsonRejection for a body serde refuses
OK == 200                           \* Ok(Json(..))

Reqs == 1..NReq

\* ------------------------------------------------------------ the database
\* The provisioned wallets rows (schema and seed data are not in src/).
WalletIds == {1, 2}
InitialWallets ==
    [w \in WalletIds |->
        [balance |-> 0, credit_limit |-> IF w = 1 THEN 1000 ELSE 1]]

\* transactions.wallet_id is a foreign reference to wallets.id.
ForeignKeyOk(w) == w \in WalletIds

\* ---------------------------------------------------------------- requests
\* Path(wallet_id): i32, and the JSON body before serde has looked at it:
\* valor, tipo (still a string), descricao (its length is all that matters).
PathIds == {1, 2, 3}
BodyValues == {0, 1, 1000}
BodyKinds == {"c", "d", "credit"}
BodyDescriptions == {0, 1, 11}

Inputs ==
    [wallet_id : PathIds, value : BodyValues, kind : BodyKinds,
     description : BodyDescriptions]

\* #[serde(rename = "c")] Credit, #[serde(rename = "d")] Debit: what
\* Json<PostTransaction> makes of "tipo"; "" stands for a serde error.
DeserializeKindByDbName(s) ==
    IF s \in {"c", "credit"} THEN "Credit"
    ELSE IF s \in {"d", "debit"} THEN "Debit" ELSE ""

DeserializeKind(s) ==
    IF s = "c" THEN "Credit" ELSE IF s = "d" THEN "Debit" ELSE ""

\* valor, $1 of the UPDATE and the balance column it is added to are i32.
MinI32 == -2147483647 - 1
MaxI32 == 2147483647

\* -value on an i32: the least i32 has no negative.  A build with overflow
\* checks panics there, a build without them wraps to the same value.
Negate(value) == IF value = MinI32 THEN MinI32 ELSE 0 - value
NegateOutcomes(k, value) ==
    IF k = "Debit" /\ value = MinI32 THEN {"wraps", "panics"} ELSE {"ok"}

\* let updated_value = match kind { Credit => value, Debit => -value }
updated_value(k, value) ==
    IF k = "Credit" THEN value ELSE Negate(value)

\* balance + $1 in the database: integer out of range is an error.
InRangeSum(a, b) ==
    IF b < 0 THEN a >= MinI32 - b ELSE a <= MaxI32 - b

\* ---------------------------------------------------------------- responses
NoResponse == [status |-> 0, msg |-> "", saldo |-> 0, limite |-> 0]

\* fn internal_error(err) -> (StatusCode::INTERNAL_SERVER_ERROR, err.to_string())
internal_error(err) ==
    [status |-> INTERNAL_SERVER_ERROR, msg |-> err, saldo |-> 0, limite |-> 0]

\* axum answers for the handler when the Json extractor fails.
JsonRejection ==
    [status |-> UNPROCESSABLE_ENTITY, msg |-> "json", saldo |-> 0, limite |-> 0]

\* Ok(Json(json!({"saldo": res.balance, "limite": res.credit_limit})))
OkResponseSwapped(res) ==
    [status |-> OK, msg |-> "", saldo |-> res.credit_limit, limite |-> res.balance]

OkResponse(res) ==
    [status |-> OK, msg |-> "", saldo |-> res.balance, limite |-> res.credit_limit]

NoRecord ==
    [id |-> 0, wallet_id |-> 0, value |-> 0, kind |-> "", description |-> 0,
     inserted_at |-> 0, req |-> 0]
NoRes == [balance |-> 0, credit_limit |-> 0]

\* statement: nothing called yet.
NoStatement ==
    [wallet_id |-> 0, status |-> 0, lastTransactions |-> <<>>,
     foo |-> [err |-> "", balance |-> 0, credit_limit |-> 0, transactions |-> {}]]

VARIABLES
    wallets,    \* committed rows of table wallets: id -> balance, credit_limit
    log,        \* committed rows of table transactions, in commit order
    nextId,     \* the sequence behind transactions.id
    clock,      \* the database clock
    lock,       \* wallets row lock: id -> the request whose transaction holds it, or 0
    req,        \* request -> its input
    pc,         \* request -> the await it is at
    kind,       \* request -> post_transaction.kind once deserialized
    txRecord,   \* request -> the row its open transaction inserted, not yet committed
    txBalance,  \* request -> res of its UPDATE .. RETURNING, not yet committed
    resp,       \* request -> the response it returned
    dropped,    \* request -> the await at which its future was dropped, or ""
    commits,    \* history: the committed balance updates, in commit order
    stmt,       \* the last call of statement: its query result and its response
    others      \* pool connections held by requests other than Reqs

vars ==
    <<wallets, log, nextId, clock, lock, req, pc, kind, txRecord, txBalance,
      resp, dropped, commits, stmt, others>>

InitialState(inputs) ==
    /\ wallets = InitialWallets
    /\ log = <<>>
    /\ nextId = 1
    /\ clock = 0
    /\ lock = [w \in WalletIds |-> 0]
    /\ req \in [Reqs -> inputs]
    /\ pc = [r \in Reqs |-> "extract"]
    /\ kind = [r \in Reqs |-> ""]
    /\ txRecord = [r \in Reqs |-> NoRecord]
    /\ txBalance = [r \in Reqs |-> NoRes]
    /\ resp = [r \in Reqs |-> NoResponse]
    /\ dropped = [r \in Reqs |-> ""]
    /\ commits = <<>>
    /\ stmt = NoStatement
    /\ others = 0

Init == InitialState(Inputs)

\* Connections of the pool held by open transactions.
InTransaction(r) == pc[r] \in {"insert", "update", "commit"}
InUse == Cardinality({r \in Reqs : InTransaction(r)})

\* ------------------------------------------------- transaction end: rollback
\* Dropping sqlx's Transaction without commit (the `?` returns, a dropped
\* future) rolls it back: the uncommitted insert and update are discarded
\* and the row lock is released.
RolledBackLogKeepsInsert(r) ==
    IF txRecord[r] = NoRecord THEN log ELSE Append(log, txRecord[r])
RolledBackWalletsKeepsUpdate(r) ==
    IF txBalance[r] = NoRes THEN wallets
    ELSE [wallets EXCEPT ![req[r].wallet_id] = txBalance[r]]

RolledBackLog(r) == log
RolledBackWallets(r) == wallets
ReleaseLocks(r) == [w \in WalletIds |-> IF lock[w] = r THEN 0 ELSE lock[w]]

Rollback(r) ==
    /\ log' = RolledBackLog(r)
    /\ wallets' = RolledBackWallets(r)
    /\ lock' = ReleaseLocks(r)
    /\ txRecord' = [txRecord EXCEPT ![r] = NoRecord]
    /\ txBalance' = [txBalance EXCEPT ![r] = NoRes]
    /\ UNCHANGED commits

\* `.map_err(internal_error)?` inside the open transaction.
FailInTransaction(r, err) ==
    /\ Rollback(r)
    /\ resp' = [resp EXCEPT ![r] = internal_error(err)]
    /\ pc' = [pc EXCEPT ![r] = "done"]
    /\ UNCHANGED <<stmt, others, clock, req, kind, dropped>>

\* ------------------------------------------------------------------ actions
\* Json(post_transaction): Json<PostTransaction> accepts the body.
Extract(r) ==
    /\ pc[r] = "extract"
    /\ DeserializeKind(req[r].kind) # ""
    /\ kind' = [kind EXCEPT ![r] = DeserializeKind(req[r].kind)]
    /\ pc' = [pc EXCEPT ![r] = "begin"]
    /\ UNCHANGED <<stmt, others, wallets, log, nextId, clock, lock, req, txRecord,
                   txBalance, resp, dropped, commits>>

\* The extractor refuses the body: the handler body never runs.
ExtractReject(r) ==
    /\ pc[r] = "extract"
    /\ DeserializeKind(req[r].kind) = ""
    /\ resp' = [resp EXCEPT ![r] = JsonRejection]
    /\ pc' = [pc EXCEPT ![r] = "done"]
    /\ UNCHANGED <<stmt, others, wallets, log, nextId, clock, lock, req, kind, txRecord,
                   txBalance, dropped, commits>>

\* let mut transaction = pool.begin().await, then updated_value is computed:
\* a panic there unwinds the handler, the empty transaction is dropped and
\* the caller gets no response.
Begin(r) ==
    /\ pc[r] = "begin"
    /\ InUse + others < MaxConnections
    /\ \E o \in NegateOutcomes(kind[r], req[r].value) :
        IF o = "panics"
        THEN /\ pc' = [pc EXCEPT ![r] = "done"]
             /\ dropped' = [dropped EXCEPT ![r] = "panic"]
        ELSE /\ pc' = [pc EXCEPT ![r] = "insert"]
             /\ UNCHANGED dropped
    /\ UNCHANGED <<stmt, others, wallets, log, nextId, clock, lock, req, kind,
                   txRecord, txBalance, resp, commits>>

\* pool.begin() fails (no connection within acquire_timeout, server down).
BeginFail(r) ==
    /\ pc[r] = "begin"
    /\ resp' = [resp EXCEPT ![r] = internal_error("pool")]
    /\ pc' = [pc EXCEPT ![r] = "done"]
    /\ UNCHANGED <<stmt, others, wallets, log, nextId, clock, lock, req, kind, txRecord,
                   txBalance, dropped, commits>>

\* INSERT INTO transactions (wallet_id, value, kind, description): the row
\* gets the next id and the insertion time; it stays uncommitted.
NextTransactionId == nextId     \* the auto-increment key of transactions
InsertionTime == clock          \* the insertion timestamp of transactions

InsertedRecord(r) ==
    [id |-> NextTransactionId, wallet_id |-> req[r].wallet_id, value |-> req[r].value,
     kind |-> kind[r], description |-> req[r].description,
     inserted_at |-> InsertionTime, req |-> r]

Insert(r) ==
    /\ pc[r] = "insert"
    /\ ForeignKeyOk(req[r].wallet_id)
    /\ txRecord' = [txRecord EXCEPT ![r] = InsertedRecord(r)]
    /\ nextId' = nextId + 1
    /\ pc' = [pc EXCEPT ![r] = "update"]
    /\ UNCHANGED <<stmt, others, wallets, log, clock, lock, req, kind, txBalance, resp,
                   dropped, commits>>

\* The INSERT names a wallet that does not exist.
InsertUnknownWallet(r) ==
    /\ pc[r] = "insert"
    /\ ~ForeignKeyOk(req[r].wallet_id)
    /\ nextId' = nextId + 1
    /\ FailInTransaction(r, "foreign_key")

\* The INSERT fails in the database or on the wire.
InsertFail(r) ==
    /\ pc[r] = "insert"
    /\ FailInTransaction(r, "io")
    /\ UNCHANGED nextId

\* UPDATE wallets SET balance = balance + $1 WHERE id = $2 waits for the row
\* lock, then reads the committed row.
RowLockNotTaken(w, r) == TRUE

RowLockFree(w, r) == lock[w] \in {0, r}

UpdatedRow(w, r) ==
    [balance |-> wallets[w].balance + updated_value(kind[r], req[r].value),
     credit_limit |-> wallets[w].credit_limit]

Update(r) ==
    /\ pc[r] = "update"
    /\ LET w == req[r].wallet_id IN
        /\ w \in WalletIds
        /\ RowLockFree(w, r)
        /\ IF InRangeSum(wallets[w].balance, updated_value(kind[r], req[r].value))
           THEN /\ lock' = [lock EXCEPT ![w] = r]
                /\ txBalance' = [txBalance EXCEPT ![r] = UpdatedRow(w, r)]
                /\ pc' = [pc EXCEPT ![r] = "commit"]
                /\ UNCHANGED <<stmt, others, wallets, log, nextId, clock, req,
                               kind, txRecord, resp, dropped, commits>>
           ELSE /\ FailInTransaction(r, "out_of_range")
                /\ UNCHANGED nextId

\* The UPDATE fails (fetch_one finds no row, database or wire error).
UpdateFail(r) ==
    /\ pc[r] = "update"
    /\ FailInTransaction(r, IF req[r].wallet_id \in WalletIds THEN "io"
                             ELSE "row_not_found")
    /\ UNCHANGED nextId

\* transaction.commit(): the insert and the update become visible together.
CommittedWalletsNoWhere(r) ==
    [w \in WalletIds |->
        [balance |-> wallets[w].balance
                     + (txBalance[r].balance - wallets[req[r].wallet_id].balance),
         credit_limit |-> wallets[w].credit_limit]]

CommittedWallets(r) ==
    [wallets EXCEPT ![req[r].wallet_id] = txBalance[r]]
CommittedLogUpsert(r) ==
    Append(SelectSeq(log, LAMBDA rec : rec.wallet_id # req[r].wallet_id),
           txRecord[r])

CommittedLog(r) == Append(log, txRecord[r])

CommitEntry(r) ==
    [req |-> r, wallet_id |-> req[r].wallet_id,
     delta |-> updated_value(kind[r], req[r].value),
     prev |-> wallets[req[r].wallet_id].balance,
     balance |-> txBalance[r].balance]

DoCommit(r) ==
    /\ wallets' = CommittedWallets(r)
    /\ log' = CommittedLog(r)
    /\ lock' = ReleaseLocks(r)
    /\ commits' = Append(commits, CommitEntry(r))
    /\ txRecord' = [txRecord EXCEPT ![r] = NoRecord]

Commit(r) ==
    /\ pc[r] = "commit"
    /\ DoCommit(r)
    /\ resp' = [resp EXCEPT ![r] = OkResponse(txBalance[r])]
    /\ txBalance' = [txBalance EXCEPT ![r] = NoRes]
    /\ pc' = [pc EXCEPT ![r] = "done"]
    /\ UNCHANGED <<stmt, others, nextId, clock, req, kind, dropped>>

\* commit() returns an error: the database reports that it did not commit,
\* the transaction is aborted.
CommitFail(r) ==
    /\ pc[r] = "commit"
    /\ FailInTransaction(r, "io")
    /\ UNCHANGED nextId

\* The caller disconnects and the handler future is dropped at an await
\* inside the transaction: the Transaction is dropped and rolls back.
Cancel(r) ==
    /\ InTransaction(r)
    /\ Rollback(r)
    /\ dropped' = [dropped EXCEPT ![r] = pc[r]]
    /\ pc' = [pc EXCEPT ![r] = "done"]
    /\ UNCHANGED <<stmt, others, nextId, clock, req, kind, resp>>

\* The future is dropped while commit() is in flight and the database has
\* already executed COMMIT.
CancelAfterCommit(r) ==
    /\ pc[r] = "commit"
    /\ DoCommit(r)
    /\ txBalance' = [txBalance EXCEPT ![r] = NoRes]
    /\ dropped' = [dropped EXCEPT ![r] = "committed"]
    /\ pc' = [pc EXCEPT ![r] = "done"]
    /\ UNCHANGED <<stmt, others, nextId, clock, req, kind, resp>>

\* Time passes.
Tick ==
    /\ clock < MaxClock
    /\ clock' = clock + 1
    /\ UNCHANGED <<stmt, others, wallets, log, nextId, lock, req, pc, kind, txRecord,
                   txBalance, resp, dropped, commits>>

Next ==
    \/ \E r \in Reqs : Extract(r)
    \/ \E r \in Reqs : ExtractReject(r)
    \/ \E r \in Reqs : Begin(r)
    \/ \E r \in Reqs : BeginFail(r)
    \/ \E r \in Reqs : Insert(r)
    \/ \E r \in Reqs : InsertUnknownWallet(r)
    \/ \E r \in Reqs : InsertFail(r)
    \/ \E r \in Reqs : Update(r)
    \/ \E r \in Reqs : UpdateFail(r)
    \/ \E r \in Reqs : Commit(r)
    \/ \E r \in Reqs : CommitFail(r)
    \/ \E r \in Reqs : Cancel(r)
    \/ \E r \in Reqs : CancelAfterCommit(r)
    \/ Tick

Spec == Init /\ [][Next]_vars

\* The same requests with valor at the ends of i32.
I32PathIds == {1, 3}
I32BodyValues == {MinI32, 1, MaxI32}
I32BodyDescriptions == {1}
I32Inputs ==
    [wallet_id : I32PathIds, value : I32BodyValues, kind : BodyKinds,
     description : I32BodyDescriptions]

InitI32 == InitialState(I32Inputs)
SpecI32 == InitI32 /\ [][Next]_vars

\* ---------------------------------------------------------------- statement
\* GET /clientes/:id/extrato.  The query joins the wallet with its rows
\* (INNER JOIN, GROUP BY, ARRAY_AGG with no ORDER BY and no LIMIT): one row
\* holding balance, credit_limit and all the wallet's transactions, in an
\* order SQL leaves open (a set here); no row at all, so RowNotFound from
\* fetch_one, when the wallet does not exist or has no transaction.
RowsOf(w) == {log[i] : i \in {j \in DOMAIN log : log[j].wallet_id = w}}

QueryResult(w) ==
    IF w \in WalletIds /\ RowsOf(w) # {}
    THEN [err |-> "", balance |-> wallets[w].balance,
          credit_limit |-> wallets[w].credit_limit, transactions |-> RowsOf(w)]
    ELSE [err |-> "RowNotFound", balance |-> 0, credit_limit |-> 0,
          transactions |-> {}]

QueryError ==
    [err |-> "io", balance |-> 0, credit_limit |-> 0, transactions |-> {}]

\* .map_err(internal_error) without `?`: foo is printed and dropped, and the
\* handler returns Ok(()): status 200 with an empty body, whatever foo is.
StatementResponse(w, foo) ==
    [wallet_id |-> w, status |-> OK, lastTransactions |-> <<>>, foo |-> foo]

\* A SELECT writes nothing.
LogAfterStatementPruned(w) == SelectSeq(log, LAMBDA rec : rec.wallet_id # w)

LogAfterStatement(w) == log
WalletsAfterStatement(w) == wallets

Statement(w) ==
    /\ stmt' = StatementResponse(w, QueryResult(w))
    /\ log' = LogAfterStatement(w)
    /\ wallets' = WalletsAfterStatement(w)
    /\ UNCHANGED <<nextId, clock, lock, req, pc, kind, txRecord, txBalance,
                   resp, dropped, commits, others>>

\* The query fails (no connection, database or wire error).
StatementFail(w) ==
    /\ stmt' = StatementResponse(w, QueryError)
    /\ log' = LogAfterStatement(w)
    /\ wallets' = WalletsAfterStatement(w)
    /\ UNCHANGED <<nextId, clock, lock, req, pc, kind, txRecord, txBalance,
                   resp, dropped, commits, others>>

\* The requests the statement runs are checked against.
StatementBodyValues == {1}
StatementBodyDescriptions == {1}
StatementInputs ==
    [wallet_id : PathIds, value : StatementBodyValues, kind : BodyKinds,
     description : StatementBodyDescriptions]

InitStatement == InitialState(StatementInputs)

NextStatement ==
    \/ Next
    \/ \E w \in PathIds : Statement(w)
    \/ \E w \in PathIds : StatementFail(w)

SpecStatement == InitStatement /\ [][NextStatement]_vars

\* ----------------------------------------------------------- pool exhaustion
\* The pool of max_connections(5) is shared, through with_state(pool), with
\* every other request the server is handling; each of them holds a
\* connection for as long as it likes.
OtherAcquire ==
    /\ InUse + others < MaxConnections
    /\ others' = others + 1
    /\ UNCHANGED <<stmt, wallets, log, nextId, clock, lock, req, pc, kind,
                   txRecord, txBalance, resp, dropped, commits>>

OtherRelease ==
    /\ others > 0
    /\ others' = others - 1
    /\ UNCHANGED <<stmt, wallets, log, nextId, clock, lock, req, pc, kind,
                   txRecord, txBalance, resp, dropped, commits>>

\* acquire_timeout(Duration::from_secs(3)): a begin() that finds every
\* connection taken fails with PoolTimedOut when the time has elapsed.
AcquireWaitsForever(r) == FALSE

AcquireTimedOut(r) == InUse + others >= MaxConnections

BeginTimeout(r) ==
    /\ pc[r] = "begin"
    /\ AcquireTimedOut(r)
    /\ resp' = [resp EXCEPT ![r] = internal_error("pool timed out")]
    /\ pc' = [pc EXCEPT ![r] = "done"]
    /\ UNCHANGED <<stmt, others, wallets, log, nextId, clock, lock, req, kind,
                   txRecord, txBalance, dropped, commits>>

PoolPathIds == {1, 3}
PoolBodyValues == {1}
PoolBodyKinds == {"d", "credit"}
PoolBodyDescriptions == {1}
PoolInputs ==
    [wallet_id : PoolPathIds, value : PoolBodyValues, kind : PoolBodyKinds,
     description : PoolBodyDescriptions]

InitPool == InitialState(PoolInputs)

NextPool ==
    \/ Next
    \/ OtherAcquire
    \/ OtherRelease
    \/ \E r \in Reqs : BeginTimeout(r)

\* The runtime keeps polling a handler whose await can complete, the
\* database executes the statement it was sent, and the timer of
\* acquire_timeout fires.  Nothing makes the other requests give their
\* connections back, and failures and cancellations need not happen.
Fairness ==
    \A r \in Reqs :
        /\ WF_vars(Extract(r) \/ ExtractReject(r))
        /\ WF_vars(Begin(r) \/ BeginTimeout(r))
        /\ WF_vars(Insert(r) \/ InsertUnknownWallet(r))
        /\ WF_vars(Update(r))
        /\ WF_vars(Commit(r))

SpecPool == InitPool /\ [][NextPool]_vars /\ Fairness

\* ------------------------------------------------- vocabulary of the claims
Limit(w) == wallets[w].credit_limit
Answered(r) == resp[r].status # 0
Succeeded(r) == resp[r].status = OK
ReturnedError(r) == resp[r].status \notin {0, OK}
\* r ended by the handler's own logic: no injected storage failure, no cancel.
StorageFault(r) == resp[r].msg \in {"io", "pool"}
Undisturbed(r) == pc[r] = "done" /\ dropped[r] = "" /\ ~StorageFault(r)

LogOf(r) == {i \in DOMAIN log : log[i].req = r}
CommitsOf(r) == {i \in DOMAIN commits : commits[i].req = r}
CommitsOn(w) == {i \in DOMAIN commits : commits[i].wallet_id = w}

\* The request passes the validation the API documents.
WellFormed(r) ==
    /\ req[r].kind \in {"c", "d"}
    /\ req[r].value > 0
    /\ req[r].description \in 1..10

KnownDebit(r, w) ==
    /\ req[r].wallet_id = w
    /\ req[r].kind = "d"
    /\ WellFormed(r)

RECURSIVE SumValues(_)
SumValues(S) ==
    IF S = {} THEN 0
    ELSE LET r == CHOOSE x \in S : TRUE IN req[r].value + SumValues(S \ {r})

RECURSIVE CommitSum(_, _)
CommitSum(w, n) ==
    IF n = 0 THEN 0
    ELSE CommitSum(w, n - 1)
         + (IF commits[n].wallet_id = w THEN commits[n].delta ELSE 0)

\* The balance committed on w just before the n-th commit.
BalanceBefore(n) ==
    LET w == commits[n].wallet_id
        earlier == {i \in CommitsOn(w) : i < n}
    IN IF earlier = {} THEN InitialWallets[w].balance
       ELSE commits[CHOOSE i \in earlier : \A j \in earlier : j <= i].balance

\* The signed amount a log row stands for.
Signed(rec) == IF rec.kind = "Credit" THEN rec.value ELSE 0 - rec.value

RECURSIVE LogSum(_, _)
LogSum(w, n) ==
    IF n = 0 THEN 0
    ELSE LogSum(w, n - 1) + (IF log[n].wallet_id = w THEN Signed(log[n]) ELSE 0)

\* ------------------------------------------------------------------- claims

\* C1: in every reachable state every account's committed balance is at
\* least minus its credit limit.
CreditLimitInvariant ==
    \A w \in WalletIds : wallets[w].balance >= 0 - Limit(w)

\* C2: when concurrent debits on one account, each within the limit alone
\* but together beyond it, have all finished, the balance is still within
\* the limit, it is the initial balance minus the succeeded debits, and every
\* debit that did not succeed was refused with 422.
NoDoubleSpend ==
    \A w \in WalletIds :
        (/\ \A r \in Reqs : KnownDebit(r, w) /\ Undisturbed(r)
         /\ \A r \in Reqs : InitialWallets[w].balance - req[r].value >= 0 - Limit(w)
         /\ InitialWallets[w].balance - SumValues(Reqs) < 0 - Limit(w))
        => /\ wallets[w].balance >= 0 - Limit(w)
           /\ wallets[w].balance =
                InitialWallets[w].balance - SumValues({r \in Reqs : Succeeded(r)})
           /\ \A r \in Reqs : ~Succeeded(r) => resp[r].status = 422

\* C3: the committed balances of an account form one chain in commit order:
\* each commit's balance is the balance committed just before it plus its
\* delta, and the account's balance is the initial balance plus the deltas of
\* exactly the commits.
NoLostUpdate ==
    /\ \A n \in DOMAIN commits :
        commits[n].balance = BalanceBefore(n) + commits[n].delta
    /\ \A w \in WalletIds :
        wallets[w].balance = InitialWallets[w].balance + CommitSum(w, Len(commits))

\* Two requests on one account overlapped (the second to commit had inserted
\* before the first committed) and both committed.
NoLostUpdateWitness ==
    /\ Len(commits) = 2
    /\ commits[1].wallet_id = commits[2].wallet_id
    /\ commits[1].delta # 0 /\ commits[2].delta # 0
    /\ log[2].id < log[1].id

DebitBoundary ==
    \A n \in DOMAIN commits :
        ~(/\ \A r \in Reqs : WellFormed(r)
          /\ commits[n].wallet_id = 1
          /\ Limit(1) = 1000
          /\ commits[n].prev = 0 - 1000
          /\ commits[n].delta = 0 - 1)

\* C6: a request for an account that does not exist, when storage itself
\* works, is answered 404.
UnknownAccountIsNotFound ==
    \A r \in Reqs :
        (/\ req[r].wallet_id \notin WalletIds
         /\ WellFormed(r)
         /\ Undisturbed(r))
        => resp[r].status = 404

\* C7: a request whose value is <= 0 or whose description is not 1..10 long
\* never has a database transaction open, never succeeds and never has a row
\* in the log.
InvalidRequestNeverTouchesStorage ==
    \A r \in Reqs :
        (req[r].value <= 0 \/ req[r].description \notin 1..10)
        => /\ ~InTransaction(r)
           /\ ~Succeeded(r)
           /\ LogOf(r) = {}

\* C8: a request whose kind is not "c" or "d" is refused by the extractor:
\* it never reaches begin, is answered 422 if at all, and has no row in the
\* log; every row in the log is a Credit or a Debit.
KindValidation ==
    /\ \A r \in Reqs :
        req[r].kind \notin {"c", "d"}
        => /\ pc[r] \in {"extract", "done"}
           /\ resp[r].status \in {0, UNPROCESSABLE_ENTITY}
           /\ txRecord[r] = NoRecord
           /\ LogOf(r) = {}
           /\ CommitsOf(r) = {}
    /\ \A i \in DOMAIN log : log[i].kind \in {"Credit", "Debit"}

\* A request of kind "credit" was refused while another one committed.
KindValidationWitness ==
    \E r \in Reqs :
        /\ req[r].kind = "credit"
        /\ resp[r] = JsonRejection
        /\ \E q \in Reqs \ {r} : Succeeded(q) /\ LogOf(q) # {}

\* C9: whatever was cancelled and wherever, the committed state is whole:
\* every account's balance is its initial balance plus the signed values of
\* its log rows, a request cancelled before the database committed has no
\* row in the log, and one cancelled after has its row.
CancellationIsAtomic ==
    /\ \A w \in WalletIds :
        wallets[w].balance = InitialWallets[w].balance + LogSum(w, Len(log))
    /\ \A r \in Reqs :
        /\ dropped[r] \in {"insert", "update", "commit"} => LogOf(r) = {}
        /\ dropped[r] = "committed" => Cardinality(LogOf(r)) = 1

\* A request was cancelled with its insert and its update done but not
\* committed, and another request on the same account committed after it.
CancellationIsAtomicWitness ==
    \E r \in Reqs :
        /\ dropped[r] = "commit"
        /\ req[r].value > 0
        /\ \E q \in Reqs \ {r} :
            /\ req[q].wallet_id = req[r].wallet_id
            /\ req[q].value > 0
            /\ Succeeded(q)
            /\ log[1].id = 2

\* C10: the rows of an account, in commit order, have non-decreasing
\* timestamps.
TimestampsFollowCommitOrder ==
    \A i, j \in DOMAIN log :
        (/\ i < j
         /\ log[i].wallet_id = log[j].wallet_id
         /\ WellFormed(log[i].req) /\ WellFormed(log[j].req))
        => log[i].inserted_at <= log[j].inserted_at

\* C11: a transaction that had returned success when statement ran for its
\* account is in the lastTransactions of that statement's response.
StatementRoundTrip ==
    \A r \in Reqs :
        (/\ stmt.status = OK
         /\ stmt.wallet_id = req[r].wallet_id
         /\ Succeeded(r)
         /\ \E rec \in stmt.foo.transactions : rec.req = r)
        => \E i \in DOMAIN stmt.lastTransactions :
            /\ stmt.lastTransactions[i].value = req[r].value
            /\ stmt.lastTransactions[i].kind = kind[r]
            /\ stmt.lastTransactions[i].description = req[r].description

\* C12: the response of statement lists the most recent rows of the account,
\* at most 10 of them, by timestamp descending and then by insertion
\* sequence.
StatementWindow ==
    (stmt.status = OK /\ stmt.foo.err = "")
    => LET lt == stmt.lastTransactions
           n == Cardinality(stmt.foo.transactions)
       IN /\ Len(lt) = (IF n < 10 THEN n ELSE 10)
          /\ \A i, j \in DOMAIN lt :
                i < j => \/ lt[i].inserted_at > lt[j].inserted_at
                         \/ /\ lt[i].inserted_at = lt[j].inserted_at
                            /\ lt[i].id > lt[j].id

\* C13: a step of statement, for any account id and between any steps of
\* insert_transaction requests, leaves every account and the log unchanged.
StatementIsReadOnly ==
    [][stmt' # stmt => (wallets' = wallets /\ log' = log)]_vars

\* statement read an account with a committed row while another request
\* had its transaction open.
StatementIsReadOnlyWitness ==
    /\ stmt.status = OK
    /\ stmt.foo.err = ""
    /\ stmt.foo.transactions # {}
    /\ \E r \in Reqs : InTransaction(r) /\ req[r].wallet_id = stmt.wallet_id

\* C14: statement for an account id that does not exist answers 404.
StatementUnknownIsNotFound ==
    (/\ stmt.status # 0
     /\ stmt.wallet_id \notin WalletIds
     /\ stmt.foo.err = "RowNotFound")
    => stmt.status = 404

\* The balance change of the n-th commit.
Change(n) == commits[n].balance - commits[n].prev

\* change is what a row of this kind and value stands for: +value for a
\* credit, -value for a debit (the least i32 has no negative in i32, so no
\* change of an i32 balance by an i32 is its -value).
IsSignedValue(change, k, value) ==
    IF k = "Credit" THEN change = value
    ELSE value # MinI32 /\ change = 0 - value

\* C16: every commit adds to its account's balance the signed value of the
\* one row it appends (so each balance is the initial balance plus the
\* signed values of the account's rows); a successful request has exactly
\* one row in the log and a failed one has none.
LogAndBalanceAgree ==
    /\ Len(log) = Len(commits)
    /\ \A n \in DOMAIN commits :
        /\ log[n].req = commits[n].req
        /\ log[n].wallet_id = commits[n].wallet_id
        /\ commits[n].prev = BalanceBefore(n)
        /\ IsSignedValue(Change(n), log[n].kind, log[n].value)
    /\ \A r \in Reqs :
        /\ Succeeded(r) => Cardinality(LogOf(r)) = 1
        /\ ReturnedError(r) => LogOf(r) = {}

\* C17: the balance a successful response carries is the balance the account
\* had right after that request's commit: the balance committed just before
\* it plus the request's delta, which the next commit on the account starts
\* from; the limit it carries is the account's credit limit.
ReturnedValuesAreCommitted ==
    \A r \in Reqs :
        Succeeded(r)
        => /\ Cardinality(CommitsOf(r)) = 1
           /\ \A n \in CommitsOf(r) :
                LET w == commits[n].wallet_id
                    later == {i \in CommitsOn(w) : i > n}
                IN /\ resp[r].saldo = BalanceBefore(n) + commits[n].delta
                   /\ commits[n].prev = BalanceBefore(n)
                   /\ IF later = {} THEN wallets[w].balance = resp[r].saldo
                      ELSE \A i \in later :
                            (\A j \in later : i <= j)
                            => commits[i].prev = resp[r].saldo
                   /\ resp[r].limite = InitialWallets[w].credit_limit

\* Two overlapping requests on one account both succeeded, with different
\* balances in their responses.
ReturnedValuesAreCommittedWitness ==
    \E r, q \in Reqs :
        /\ r # q
        /\ Succeeded(r) /\ Succeeded(q)
        /\ req[r].wallet_id = req[q].wallet_id
        /\ req[r].value > 0 /\ req[q].value > 0
        /\ resp[r].saldo # resp[q].saldo
        /\ log[2].id < log[1].id

\* C18: the balance change of every commit is +value of its request for a
\* credit and -value for a debit, and the row it appends holds the value as
\* sent and the kind.
DeltaComputation ==
    \A n \in DOMAIN commits :
        LET r == commits[n].req IN
        /\ IsSignedValue(Change(n), DeserializeKind(req[r].kind), req[r].value)
        /\ log[n].value = req[r].value
        /\ log[n].kind = DeserializeKind(req[r].kind)

\* C19: a step of a request on one account leaves the balance and the rows
\* of every other account unchanged, and no step changes a credit limit.
AccountIsolation ==
    [][/\ \A w \in WalletIds :
            wallets'[w].credit_limit = wallets[w].credit_limit
       /\ \A r \in Reqs :
            pc'[r] # pc[r]
            => \A w \in WalletIds \ {req[r].wallet_id} :
                /\ wallets'[w] = wallets[w]
                /\ RowsOf(w)' = RowsOf(w)]_vars

\* One request committed on account 1 while another, on account 2, failed
\* after its INSERT.
AccountIsolationWitness ==
    \E r, q \in Reqs :
        /\ req[r].wallet_id = 1 /\ Succeeded(r) /\ wallets[1].balance # 0
        /\ req[q].wallet_id = 2 /\ resp[q] = internal_error("io")
        /\ nextId = 3
        /\ wallets[2] = InitialWallets[2]
        /\ RowsOf(2) = {}

\* C20: every step leaves the committed rows in place: the log after the
\* step starts with the log before it.
AppendOnlyLog ==
    [][/\ Len(log') >= Len(log)
       /\ \A i \in DOMAIN log : log'[i] = log[i]]_vars

\* statement ran between two commits on one account, and both rows are in
\* the log.
AppendOnlyLogWitness ==
    /\ Len(log) = 2
    /\ log[1].wallet_id = log[2].wallet_id
    /\ stmt.wallet_id = log[1].wallet_id
    /\ stmt.foo.transactions = {log[1]}

PoolTimedOut(r) == resp[r] = internal_error("pool timed out")

\* C15: a request that finds all 5 connections taken ends with an error
\* when the acquire timeout elapses, in a step that writes nothing, and it
\* never has a row in the log; every request its caller does not abandon
\* eventually returns a response.
BoundedWait ==
    /\ [][\A r \in Reqs :
            (~PoolTimedOut(r) /\ PoolTimedOut(r)')
            => /\ InUse + others = MaxConnections
               /\ ReturnedError(r)'
               /\ wallets' = wallets /\ log' = log /\ nextId' = nextId
               /\ lock' = lock]_vars
    /\ [](\A r \in Reqs : PoolTimedOut(r) => LogOf(r) = {} /\ CommitsOf(r) = {})
    /\ \A r \in Reqs : <>(Answered(r) \/ dropped[r] # "")

\* One request timed out waiting for a connection while the other one,
\* holding the last connection, went on to commit.
BoundedWaitWitness ==
    \E r, q \in Reqs :
        /\ PoolTimedOut(r)
        /\ Succeeded(q)
        /\ others = MaxConnections - 1

====
